---- MODULE Spec2Model ----
(***************************************************************************)
(* Model of widgy/db/fields.py: WidgyFieldObjectDescriptor, WidgyField and *)
(* VersionedWidgyField.  An owning model instance carries one widgy field; *)
(* the descriptor intercepts assignment, pre_save creates the pointed-to   *)
(* rows, and the query helpers select content types and version trackers.  *)
(***************************************************************************)
EXTENDS Integers, Sequences, FiniteSets, TLC

VARIABLES
    fieldClass,     \* which field class the owning model declares
    root_choices,   \* the field's root_choices argument
    siteClasses,    \* site.get_all_content_classes()
    value,          \* owner -> cached related object (getattr(instance, name))
    attname,        \* owner -> raw id attribute (getattr(instance, attname))
    nodeTable,      \* stored Node rows
    trackerTable,   \* stored VersionTracker rows
    saved,          \* owner -> the owner's stored row (its foreign key column)
    saving,         \* the owner whose save() is between pre_save and the write
    ret,            \* what the pre_save of the save in progress returned
    nextOid,        \* next Python object identity
    placeholders,   \* identities of the objects built by __set__
    lastAssigned,   \* owner -> the value most recently assigned
    overwritten,    \* owner -> the _ct its latest assignment replaced (0 once a save ended)
    realised,       \* owner -> pk returned by the pre_save that replaced _ct
    uncommitted,    \* owner -> rows its pre_save created in a save not completed
    qs,             \* result of the last get_layout_contenttypes call
    undelete        \* result of get_undelete_queryset, when that call led here

vars == <<fieldClass, root_choices, siteClasses, value, attname, nodeTable,
          trackerTable, saved, saving, ret, nextOid, placeholders,
          lastAssigned, overwritten, realised, uncommitted, qs, undelete>>

(***************************************************************************)
(* Bounds                                                                  *)
(***************************************************************************)
MaxObjs == 4        \* Python objects constructed in one run
MaxLayouts == 2     \* length of a layouts argument

Owners == {"a", "b"}

(***************************************************************************)
(* The class universe the field is exercised with.  A string is a sequence *)
(* of tokens in which "." is the separator character.                      *)
(***************************************************************************)
Dot == "."
OwnerApp == <<"page">>      \* self.model._meta.app_label

Classes == {"core.Layout", "core.DefaultLayout", "page.Layout",
            "page.TwoColumn", "core.Text"}

AppLabel(c) ==
    CASE c = "core.Layout" -> <<"core">>
      [] c = "core.DefaultLayout" -> <<"core">>
      [] c = "core.Text" -> <<"core">>
      [] c = "page.Layout" -> <<"page">>
      [] c = "page.TwoColumn" -> <<"page">>

ObjectName(c) ==
    CASE c = "core.Layout" -> <<"Layout">>
      [] c = "core.DefaultLayout" -> <<"DefaultLayout">>
      [] c = "core.Text" -> <<"Text">>
      [] c = "page.Layout" -> <<"Layout">>
      [] c = "page.TwoColumn" -> <<"TwoColumn">>

\* cls._meta.module_name: the lower-cased object name
ModuleName(c) ==
    CASE c = "core.Layout" -> <<"layout">>
      [] c = "core.DefaultLayout" -> <<"defaultlayout">>
      [] c = "core.Text" -> <<"text">>
      [] c = "page.Layout" -> <<"layout">>
      [] c = "page.TwoColumn" -> <<"twocolumn">>

Bases(c) ==
    CASE c = "core.DefaultLayout" -> {"core.Layout"}
      [] c = "page.Layout" -> {"core.Layout"}
      [] c = "page.TwoColumn" -> {"page.Layout"}
      [] OTHER -> {}

Abstract(c) == c \in {"core.Layout", "page.Layout"}

RECURSIVE Mro(_)
Mro(c) == {c} \cup UNION {Mro(b) : b \in Bases(c)}

\* issubclass(cls, layouts) with a tuple of classes
IsSubclass(c, layouts) == \E l \in layouts : l \in Mro(c)

\* ContentType rows exist for the concrete models
ContentTypes ==
    { [id |-> 1, app_label |-> <<"core">>, model |-> <<"defaultlayout">>],
      [id |-> 2, app_label |-> <<"page">>, model |-> <<"twocolumn">>],
      [id |-> 3, app_label |-> <<"core">>, model |-> <<"text">>] }

CtIds == {ct.id : ct \in ContentTypes}

\* ct.model_class()
ModelClass(ctid) ==
    CHOOSE c \in Classes : \E ct \in ContentTypes :
        ct.id = ctid /\ ct.app_label = AppLabel(c) /\ ct.model = ModuleName(c)

\* the ContentType of a model class (ContentType.objects.get_for_model)
CtOf(c) ==
    (CHOOSE ct \in ContentTypes :
        ct.app_label = AppLabel(c) /\ ct.model = ModuleName(c)).id

(***************************************************************************)
(* WidgyField.get_layout_contenttypes                                      *)
(***************************************************************************)
StrLayout(text) == [kind |-> "str", text |-> text, cls |-> ""]
ClsLayout(c) == [kind |-> "cls", text |-> <<>>, cls |-> c]

\* the layout designators the function is exercised with
LayoutInputs ==
    { StrLayout(<<"core", Dot, "Layout">>),
      StrLayout(<<"Layout">>),
      StrLayout(<<"page", Dot, "TwoColumn">>),
      StrLayout(<<"core", Dot, "models", Dot, "Layout">>),
      StrLayout(<<"Text">>),
      ClsLayout("core.DefaultLayout"),
      ClsLayout("core.Text") }

RECURSIVE SeqsUpTo(_, _)
SeqsUpTo(S, n) ==
    IF n = 0 THEN {<<>>}
    ELSE LET shorter == SeqsUpTo(S, n - 1)
         IN  shorter \cup {Append(q, x) : q \in shorter, x \in S}

NoneArg == [none |-> TRUE, items |-> <<>>]
ListArg(items) == [none |-> FALSE, items |-> items]

\* str.split("."): the pieces between the separators
RECURSIVE SplitFrom(_, _, _)
SplitFrom(text, cur, acc) ==
    IF text = <<>> THEN Append(acc, cur)
    ELSE IF Head(text) = Dot
         THEN SplitFrom(Tail(text), <<>>, Append(acc, cur))
         ELSE SplitFrom(Tail(text), Append(cur, Head(text)), acc)

Split(text) == SplitFrom(text, <<>>, <<>>)

Raised(exc) == [ok |-> FALSE, exc |-> exc, rows |-> {}]
QuerySet(rows) == [ok |-> TRUE, exc |-> "", rows |-> rows]

\* getattr(get_app(app_label), model_name)
GetAppAttr(app_label, model_name) ==
    LET found == {c \in Classes :
                    AppLabel(c) = app_label /\ ObjectName(c) = model_name}
    IN  IF \A c \in Classes : AppLabel(c) # app_label
        THEN [ok |-> FALSE, exc |-> "ImproperlyConfigured", cls |-> ""]
        ELSE IF found = {}
        THEN [ok |-> FALSE, exc |-> "AttributeError", cls |-> ""]
        ELSE [ok |-> TRUE, exc |-> "", cls |-> CHOOSE c \in found : TRUE]

normalize(layout) ==
    LET parts == Split(layout.text)
        app_label == IF layout.kind = "cls" THEN AppLabel(layout.cls)
                     ELSE IF Len(parts) = 2 THEN parts[1]
                     ELSE OwnerApp
        model_name == IF layout.kind = "cls" THEN ObjectName(layout.cls)
                      ELSE IF Len(parts) = 2 THEN parts[2]
                      ELSE layout.text
    IN  GetAppAttr(app_label, model_name)

get_layout_contenttypes(layouts, site) ==
    LET norm == [k \in 1..Len(layouts.items) |-> normalize(layouts.items[k])]
        bad == {k \in DOMAIN norm : ~norm[k].ok}
        first == CHOOSE k \in bad : \A j \in bad : k <= j
        tuple == {norm[k].cls : k \in DOMAIN norm}
        classes == {c \in site : IsSubclass(c, tuple)}
    IN  IF layouts.none THEN Raised("TypeError")
        ELSE IF bad # {} THEN Raised(norm[first].exc)
        ELSE IF classes = {} THEN Raised("TypeError")
        ELSE QuerySet({ct.id : ct \in
                {ct \in ContentTypes : \E c \in classes :
                    ct.app_label = AppLabel(c) /\ ct.model = ModuleName(c)}})

NoUndelete == [called |-> FALSE, result |-> Raised("")]

(***************************************************************************)
(* Objects and rows                                                        *)
(***************************************************************************)
\* A Python object: its identity, its model class, its pk (0 is None) and
\* its _ct attribute (0 when the object has no such attribute).
NoneObj == [oid |-> -1, cls |-> "NoneType", pk |-> 0, ct |-> 0]
Obj(oid, cls, pk, ct) == [oid |-> oid, cls |-> cls, pk |-> pk, ct |-> ct]

\* hasattr(value, '_ct')
HasCt(obj) == obj.ct # 0

\* self.rel.to: 'widgy.Node' or 'widgy.VersionTracker'
RelTo == IF fieldClass = "WidgyField" THEN "Node" ELSE "VersionTracker"

\* the next value of a table's auto-increment primary key
NextPk(table) == Cardinality(table) + 1

\* ModelClass.add_root(site).node: a new root Node row for the class
add_root(cls, oid) ==
    [pk |-> NextPk(nodeTable), content_type |-> CtOf(cls), oid |-> oid]

\* VersionTracker.objects.create(working_copy=node): head keeps its default
VersionTracker_create(node, oid) ==
    [pk |-> NextPk(trackerTable), working_copy |-> node.pk, head |-> 0,
     oid |-> oid]

\* the rows an assignment can name: instances of rel.to loaded from the table
RelatedRows ==
    IF fieldClass = "WidgyField"
    THEN {Obj(r.oid, "Node", r.pk, 0) : r \in nodeTable}
    ELSE {Obj(r.oid, "VersionTracker", r.pk, 0) : r \in trackerTable}

\* the ContentTypes the owners are assigned
AssignedCts == {ct.id : ct \in {ct \in ContentTypes : ct.model # <<"text">>}}

\* what can be assigned to the field attribute
ContentTypeValue(id) == [kind |-> "ContentType", id |-> id, obj |-> NoneObj]
ObjectValue(obj) == [kind |-> "object", id |-> 0, obj |-> obj]
Assignable ==
    {ContentTypeValue(id) : id \in AssignedCts}
        \cup {ObjectValue(NoneObj)}
        \cup {ObjectValue(o) : o \in RelatedRows}


(***************************************************************************)
(* WidgyFieldObjectDescriptor.__set__                                      *)
(***************************************************************************)
\* tuple targets swapped: _ct lands on the ContentType, not on the new object
SetObject_ctOnContentType(i, v) ==
    IF v.kind = "ContentType" THEN Obj(nextOid, RelTo, 0, 0) ELSE v.obj

\* a value that already carries _ct is kept when a ContentType is assigned
SetObject_keepFirst(i, v) ==
    IF v.kind = "ContentType"
    THEN IF HasCt(value[i]) THEN Obj(nextOid, RelTo, 0, value[i].ct)
         ELSE Obj(nextOid, RelTo, 0, v.id)
    ELSE v.obj

\* the object handed to the base descriptor: value, value._ct = ModelClass(), value
SetObject(i, v) ==
    IF v.kind = "ContentType" THEN Obj(nextOid, RelTo, 0, v.id) ELSE v.obj

Descriptor_set(i, v) ==
    /\ saving = ""
    /\ IF v.kind = "ContentType"
       THEN /\ nextOid <= MaxObjs
            /\ nextOid' = nextOid + 1
            /\ placeholders' = placeholders \cup {nextOid}
       ELSE UNCHANGED <<nextOid, placeholders>>
    /\ value' = [value EXCEPT ![i] = SetObject(i, v)]
    /\ attname' = [attname EXCEPT ![i] = SetObject(i, v).pk]
    /\ lastAssigned' = [lastAssigned EXCEPT ![i] = v]
    /\ overwritten' = [overwritten EXCEPT ![i] = value[i].ct]
    /\ realised' = [realised EXCEPT ![i] = 0]
    /\ undelete' = NoUndelete
    /\ UNCHANGED <<fieldClass, root_choices, siteClasses, nodeTable,
                   trackerTable, saved, saving, ret, uncommitted, qs>>

(***************************************************************************)
(* WidgyField.pre_save                                                     *)
(***************************************************************************)
\* the throwaway object itself is saved instead of a new root node
WidgyField_node_savesPlaceholder(v) ==
    [pk |-> NextPk(nodeTable), content_type |-> v.ct, oid |-> v.oid]

\* node = ct.model_class().add_root(self.site).node
WidgyField_node(v) == add_root(ModelClass(v.ct), nextOid)

\* the raw id attribute is left as the descriptor set it
WidgyField_setattr_noAttname(i, node) ==
    [value |-> Obj(node.oid, "Node", node.pk, 0), attname |-> attname[i],
     ret |-> node.pk]

\* the field attribute is left holding the object that carries _ct
WidgyField_setattr_keepsValue(i, node) ==
    [value |-> value[i], attname |-> node.pk, ret |-> node.pk]

\* setattr(name, node); setattr(attname, node.pk); return node.pk
WidgyField_setattr(i, node) ==
    [value |-> Obj(node.oid, "Node", node.pk, 0), attname |-> node.pk,
     ret |-> node.pk]

WidgyField_pre_save(i) ==
    /\ saving = ""
    /\ fieldClass = "WidgyField"
    /\ IF HasCt(value[i])
       THEN LET node == WidgyField_node(value[i])
                out == WidgyField_setattr(i, node)
            IN  /\ nextOid <= MaxObjs
                /\ nodeTable' = nodeTable \cup {node}
                /\ value' = [value EXCEPT ![i] = out.value]
                /\ attname' = [attname EXCEPT ![i] = out.attname]
                /\ ret' = out.ret
                /\ nextOid' = nextOid + 1
                /\ realised' = [realised EXCEPT ![i] = out.ret]
                /\ uncommitted' = [uncommitted EXCEPT ![i] = @ \cup {node.oid}]
       ELSE /\ ret' = attname[i]
            /\ UNCHANGED <<nodeTable, value, attname, nextOid, realised,
                           uncommitted>>
    /\ saving' = i
    /\ undelete' = NoUndelete
    /\ UNCHANGED <<fieldClass, root_choices, siteClasses, trackerTable, saved,
                   placeholders, lastAssigned, overwritten, qs>>

(***************************************************************************)
(* VersionedWidgyField.pre_save                                            *)
(***************************************************************************)
\* the node's primary key is returned in place of the tracker's
Versioned_setattr_returnsNodePk(i, node, version_tracker) ==
    [value |-> Obj(version_tracker.oid, "VersionTracker", version_tracker.pk, 0),
     attname |-> version_tracker.pk, ret |-> node.pk]

\* setattr(name, version_tracker); setattr(attname, version_tracker.pk);
\* return version_tracker.pk
Versioned_setattr(i, node, version_tracker) ==
    [value |-> Obj(version_tracker.oid, "VersionTracker", version_tracker.pk, 0),
     attname |-> version_tracker.pk, ret |-> version_tracker.pk]

VersionedWidgyField_pre_save(i) ==
    /\ saving = ""
    /\ fieldClass = "VersionedWidgyField"
    /\ IF HasCt(value[i])
       THEN LET node == add_root(ModelClass(value[i].ct), nextOid)
                version_tracker == VersionTracker_create(node, nextOid + 1)
                out == Versioned_setattr(i, node, version_tracker)
            IN  /\ nextOid + 1 <= MaxObjs
                /\ nodeTable' = nodeTable \cup {node}
                /\ trackerTable' = trackerTable \cup {version_tracker}
                /\ value' = [value EXCEPT ![i] = out.value]
                /\ attname' = [attname EXCEPT ![i] = out.attname]
                /\ ret' = out.ret
                /\ nextOid' = nextOid + 2
                /\ realised' = [realised EXCEPT ![i] = out.ret]
                /\ uncommitted' = [uncommitted EXCEPT ![i] =
                        @ \cup {node.oid, version_tracker.oid}]
       ELSE /\ ret' = attname[i]
            /\ UNCHANGED <<nodeTable, trackerTable, value, attname, nextOid,
                           realised, uncommitted>>
    /\ saving' = i
    /\ undelete' = NoUndelete
    /\ UNCHANGED <<fieldClass, root_choices, siteClasses, saved, placeholders,
                   lastAssigned, overwritten, qs>>

(***************************************************************************)
(* The rest of Model.save(): the owner's row is written, or the save       *)
(* raises after pre_save has run.                                          *)
(***************************************************************************)
WriteRow(i) ==
    /\ saving = i
    /\ saved' = [saved EXCEPT ![i] = ret]
    /\ saving' = ""
    /\ ret' = 0
    /\ uncommitted' = [uncommitted EXCEPT ![i] = {}]
    /\ overwritten' = [overwritten EXCEPT ![i] = 0]
    /\ undelete' = NoUndelete
    /\ UNCHANGED <<fieldClass, root_choices, siteClasses, value, attname,
                   nodeTable, trackerTable, nextOid, placeholders,
                   lastAssigned, realised, qs>>

SaveFails(i) ==
    /\ saving = i
    /\ saving' = ""
    /\ ret' = 0
    /\ overwritten' = [overwritten EXCEPT ![i] = 0]
    /\ undelete' = NoUndelete
    /\ UNCHANGED <<fieldClass, root_choices, siteClasses, value, attname,
                   nodeTable, trackerTable, saved, nextOid, placeholders,
                   lastAssigned, realised, uncommitted, qs>>

\* a commit of the working copy gives the tracker a head
Commit(pk) ==
    /\ saving = ""
    /\ \E t \in trackerTable :
        /\ t.pk = pk
        /\ t.head = 0
        /\ LET wc == CHOOSE n \in nodeTable : n.pk = t.working_copy
           IN  trackerTable' = (trackerTable \ {t})
                                  \cup {[t EXCEPT !.head = wc.content_type]}
    /\ undelete' = NoUndelete
    /\ UNCHANGED <<fieldClass, root_choices, siteClasses, value, attname,
                   nodeTable, saved, saving, ret, nextOid, placeholders,
                   lastAssigned, overwritten, realised, uncommitted, qs>>

(***************************************************************************)
(* VersionedWidgyField.get_undelete_queryset                               *)
(***************************************************************************)
\* VersionTracker.objects.orphan(): trackers no owner row refers to
orphan == {t \in trackerTable : \A i \in Owners : saved[i] # t.pk}

\* working_copy__content_type_id
WorkingCopyCt(t) == (CHOOSE n \in nodeTable : n.pk = t.working_copy).content_type

get_undelete_queryset ==
    LET layouts == get_layout_contenttypes(root_choices, siteClasses)
    IN  IF ~layouts.ok THEN layouts
        ELSE QuerySet({t.pk : t \in
                {t \in orphan : /\ t.head \in layouts.rows
                                /\ WorkingCopyCt(t) \in layouts.rows}})

CallGetUndeleteQueryset ==
    /\ saving = ""
    /\ fieldClass = "VersionedWidgyField"
    /\ undelete' = [called |-> TRUE, result |-> get_undelete_queryset]
    /\ UNCHANGED <<fieldClass, root_choices, siteClasses, value, attname,
                   nodeTable, trackerTable, saved, saving, ret, nextOid,
                   placeholders, lastAssigned, overwritten, realised, uncommitted,
                   qs>>

\* formfield(): queryset = self.get_layout_contenttypes(self.root_choices)
CallGetLayoutContenttypes(layouts) ==
    /\ saving = ""
    /\ qs' = [arg |-> layouts, result |-> get_layout_contenttypes(layouts, siteClasses)]
    /\ undelete' = NoUndelete
    /\ UNCHANGED <<fieldClass, root_choices, siteClasses, value, attname,
                   nodeTable, trackerTable, saved, saving, ret, nextOid,
                   placeholders, lastAssigned, overwritten, realised, uncommitted>>

(***************************************************************************)
(* Specifications                                                          *)
(***************************************************************************)
ConcreteClasses == {c \in Classes : ~Abstract(c)}

\* a Node row that exists before the run (created outside the field)
ExistingNode == [pk |-> 1, content_type |-> 3, oid |-> 0]

RootChoices ==
    { ListArg(<<StrLayout(<<"core", Dot, "Layout">>)>>),
      ListArg(<<StrLayout(<<"Layout">>)>>) }

NoQs == [arg |-> NoneArg, result |-> Raised("")]

InitCommon ==
    /\ value = [i \in Owners |-> NoneObj]
    /\ attname = [i \in Owners |-> 0]
    /\ trackerTable = {}
    /\ saved = [i \in Owners |-> 0]
    /\ saving = ""
    /\ ret = 0
    /\ placeholders = {}
    /\ lastAssigned = [i \in Owners |-> ObjectValue(NoneObj)]
    /\ overwritten = [i \in Owners |-> 0]
    /\ realised = [i \in Owners |-> 0]
    /\ uncommitted = [i \in Owners |-> {}]
    /\ qs = NoQs
    /\ undelete = NoUndelete

Init ==
    /\ InitCommon
    /\ fieldClass \in {"WidgyField", "VersionedWidgyField"}
    /\ root_choices = NoneArg
    /\ siteClasses = ConcreteClasses
    /\ nodeTable \in {{}, {ExistingNode}}
    /\ nextOid = 1

Next ==
    \/ \E i \in Owners : \E v \in Assignable : Descriptor_set(i, v)
    \/ \E i \in Owners : WidgyField_pre_save(i)
    \/ \E i \in Owners : VersionedWidgyField_pre_save(i)
    \/ \E i \in Owners : WriteRow(i)
    \/ \E i \in Owners : SaveFails(i)

Spec == Init /\ [][Next]_vars

\* the versioned field with its undelete query
InitUndelete ==
    /\ InitCommon
    /\ fieldClass = "VersionedWidgyField"
    /\ root_choices \in RootChoices
    /\ siteClasses = ConcreteClasses
    /\ nodeTable \in {{}, {ExistingNode}}
    /\ nextOid = 1

NextUndelete ==
    \/ \E i \in Owners : \E v \in Assignable : Descriptor_set(i, v)
    \/ \E i \in Owners : VersionedWidgyField_pre_save(i)
    \/ \E i \in Owners : WriteRow(i)
    \/ \E i \in Owners : SaveFails(i)
    \/ \E t \in trackerTable : Commit(t.pk)
    \/ CallGetUndeleteQueryset

SpecUndelete == InitUndelete /\ [][NextUndelete]_vars

\* get_layout_contenttypes as a function of its argument and the site
InitLayouts ==
    /\ InitCommon
    /\ fieldClass = "WidgyField"
    /\ root_choices = NoneArg
    /\ siteClasses \in SUBSET Classes
    /\ nodeTable = {}
    /\ nextOid = 1

LayoutArgs ==
    {NoneArg} \cup {ListArg(q) : q \in SeqsUpTo(LayoutInputs, MaxLayouts)}

NextLayouts == \E layouts \in LayoutArgs : CallGetLayoutContenttypes(layouts)

SpecLayouts == InitLayouts /\ [][NextLayouts]_vars

(***************************************************************************)
(* Properties                                                              *)
(***************************************************************************)
\* the step is a pre_save of owner i: only pre_save starts a save
PreSaveRan(i) == saving = "" /\ saving' = i

\* C1: the object that __set__ builds to carry _ct is never persisted: no
\* stored Node or VersionTracker row was written from such an object, and
\* every stored node has the content type of a real model class.
C1_PlaceholderNeverPersisted ==
    /\ \A n \in nodeTable :
        /\ n.oid \notin placeholders
        /\ n.content_type = CtOf(ModelClass(n.content_type))
    /\ \A t \in trackerTable : t.oid \notin placeholders

C1_Witness ==
    \E i \in Owners :
        /\ saving = i
        /\ realised[i] # 0
        /\ placeholders # {}
        /\ \E n \in nodeTable : n.oid > 0

\* C2: assigning a ContentType writes no Node and no VersionTracker row and
\* no owner row; it leaves the field holding an unsaved instance of the
\* field's target model whose _ct is the assigned ContentType.
C2_AssignmentCreatesNoRow ==
    [][\A i \in Owners : \A id \in AssignedCts :
        Descriptor_set(i, ContentTypeValue(id)) =>
            /\ nodeTable' = nodeTable
            /\ trackerTable' = trackerTable
            /\ saved' = saved
            /\ value'[i].cls = RelTo
            /\ value'[i].pk = 0
            /\ value'[i].ct = id
            /\ attname'[i] = 0
            /\ \A j \in Owners \ {i} : value'[j] = value[j]]_vars

C2_Witness ==
    \E i \in Owners :
        /\ HasCt(value[i])
        /\ overwritten[i] # 0
        /\ overwritten[i] # value[i].ct
        /\ \A n \in nodeTable : n.oid = 0
        /\ trackerTable = {}

\* C4: WidgyField.pre_save on a value carrying _ct adds exactly one root
\* Node of that ContentType's model class, stores the node in the field
\* attribute and its pk in attname, returns that pk, and the field value no
\* longer carries _ct.
C4_WidgyFieldPreSaveCreatesOneNode ==
    [][\A i \in Owners :
        (PreSaveRan(i) /\ fieldClass = "WidgyField" /\ HasCt(value[i])) =>
            /\ Cardinality(nodeTable') = Cardinality(nodeTable) + 1
            /\ trackerTable' = trackerTable
            /\ \E n \in nodeTable' \ nodeTable :
                /\ nodeTable' = nodeTable \cup {n}
                /\ n.content_type = value[i].ct
                /\ n.content_type = CtOf(ModelClass(value[i].ct))
                /\ value'[i] = Obj(n.oid, "Node", n.pk, 0)
                /\ attname'[i] = n.pk
                /\ ret' = n.pk
            /\ ~HasCt(value'[i])]_vars

C4_Witness ==
    \E i \in Owners :
        /\ fieldClass = "WidgyField"
        /\ saving = i
        /\ realised[i] # 0
        /\ ret = realised[i]
        /\ \E n \in nodeTable : n.pk = ret /\ n.oid = value[i].oid

\* C5: VersionedWidgyField.pre_save on a value carrying _ct adds exactly one
\* root Node of that ContentType's model class and exactly one VersionTracker
\* whose working_copy is that node, stores the tracker in the field attribute
\* and its pk in attname, and returns the tracker's pk.
C5_VersionedPreSaveCreatesNodeAndTracker ==
    [][\A i \in Owners :
        (PreSaveRan(i) /\ fieldClass = "VersionedWidgyField" /\ HasCt(value[i])) =>
            /\ Cardinality(nodeTable') = Cardinality(nodeTable) + 1
            /\ Cardinality(trackerTable') = Cardinality(trackerTable) + 1
            /\ \E n \in nodeTable' \ nodeTable :
               \E t \in trackerTable' \ trackerTable :
                /\ nodeTable' = nodeTable \cup {n}
                /\ trackerTable' = trackerTable \cup {t}
                /\ n.content_type = CtOf(ModelClass(value[i].ct))
                /\ t.working_copy = n.pk
                /\ value'[i] = Obj(t.oid, "VersionTracker", t.pk, 0)
                /\ attname'[i] = t.pk
                /\ ret' = t.pk]_vars

C5_Witness ==
    \E i \in Owners :
        /\ fieldClass = "VersionedWidgyField"
        /\ saving = i
        /\ realised[i] # 0
        /\ \E t \in trackerTable :
            /\ t.pk = ret
            /\ t.oid = value[i].oid
            /\ t.working_copy # t.pk

C9_LastAssignmentDecides ==
    [][\A i \in Owners :
        /\ PreSaveRan(i) =>
            /\ \A n \in nodeTable' \ nodeTable :
                /\ lastAssigned[i].kind = "ContentType"
                /\ n.content_type = lastAssigned[i].id
            /\ lastAssigned[i].kind # "ContentType" =>
                /\ nodeTable' = nodeTable
                /\ trackerTable' = trackerTable
        /\ lastAssigned'[i].kind # "ContentType" =>
            /\ value'[i] = lastAssigned'[i].obj
            /\ ~HasCt(value'[i])]_vars

C9_Witness ==
    \E i \in Owners :
        /\ saving = i
        /\ realised[i] # 0
        /\ lastAssigned[i].kind = "ContentType"
        /\ overwritten[i] # 0
        /\ overwritten[i] # lastAssigned[i].id
        /\ \E n \in nodeTable :
            n.oid > 0 /\ n.content_type = lastAssigned[i].id

\* C3: when no save is in progress, every row that a pre_save created
\* belongs to an owner whose save completed: a save that fails after
\* pre_save leaves no newly created Node or VersionTracker row.
C3_NoRowWithoutCompletedSave ==
    saving = "" =>
        \A i \in Owners :
            /\ \A n \in nodeTable : n.oid \notin uncommitted[i]
            /\ \A t \in trackerTable : t.oid \notin uncommitted[i]

\* the content types the field's root_choices allow
AllowedCts ==
    {ct.id : ct \in
        {ct \in ContentTypes : \E c \in siteClasses :
            /\ ct.app_label = AppLabel(c) /\ ct.model = ModuleName(c)
            /\ \E k \in DOMAIN root_choices.items :
                normalize(root_choices.items[k]).cls \in Mro(c)}}

\* C6: get_undelete_queryset returns exactly the trackers that no owner row
\* refers to and whose working copy's content type root_choices allows.
C6_UndeleteReturnsRestorable ==
    undelete.called =>
        /\ undelete.result.ok
        /\ undelete.result.rows =
            {t.pk : t \in {t \in orphan : WorkingCopyCt(t) \in AllowedCts}}

\* the classes a layouts argument names, when every designator resolves
Resolves(layouts) ==
    /\ ~layouts.none
    /\ \A k \in DOMAIN layouts.items : normalize(layouts.items[k]).ok

\* C7: for layouts that resolve, get_layout_contenttypes returns a queryset
\* and never an error; it selects exactly the ContentTypes of the site's
\* content classes that subclass a layout, and none when no class matches.
C7_LayoutsAlwaysQueryset ==
    (qs # NoQs /\ Resolves(qs.arg)) =>
        /\ qs.result.ok
        /\ qs.result.rows =
            {ct.id : ct \in
                {ct \in ContentTypes : \E c \in siteClasses :
                    /\ ct.app_label = AppLabel(c) /\ ct.model = ModuleName(c)
                    /\ \E k \in DOMAIN qs.arg.items :
                        normalize(qs.arg.items[k]).cls \in Mro(c)}}

====
